---- MODULE Spec2Model ----
(***************************************************************************)
(* Startup / shutdown choreography of the yggd daemon                      *)
(* (src/cmd/yggd/main.go, app.Action, lines 87-202).                       *)
(*                                                                         *)
(* Tasks: the main task, the ProcessManager goroutine, the Dispatcher      *)
(* goroutine, the MessageRouter goroutine, the five signal-handler         *)
(* goroutines, and the runtime's signal relay that feeds `quit`.           *)
(* Init is the state right after the four components were constructed      *)
(* (line 108): `quit` exists, signal.Notify is registered, err is nil.     *)
(***************************************************************************)
EXTENDS Integers, Sequences, FiniteSets, TLC

\* ---------------------------------------------------------------- bounds
MaxWorkers == 1      \* executables found in the worker directory
MaxMessages == 1     \* inbound broker messages received during one run

\* ------------------------------------------------------------- constants
QuitCap == 1         \* make(chan os.Signal, 1)

NoErr == "nil"

Signals == {"process-die", "message-recv", "assignment-create",
            "work-complete", "assignment-return",
            "dispatcher-listen", "process-bootstrap"}

\* Component calls made by the three goroutines of main.go.
Ops == {"BootstrapWorkers", "ListenAndServe", "ConnectClient",
        "GetCanonicalFacts", "Marshal", "Publish", "Subscribe"}

\* The error each call returns when it fails (localErr at the call site).
ErrOf(op) ==
    CASE op = "BootstrapWorkers"  -> "BootstrapError"
      [] op = "ListenAndServe"    -> "ListenError"
      [] op = "ConnectClient"     -> "ConnectionError"
      [] op = "GetCanonicalFacts" -> "FactsError"
      [] op = "Marshal"           -> "MarshalError"
      [] op = "Publish"           -> "PublishError"
      [] op = "Subscribe"         -> "SubscribeError"

\* Program order of the calls inside the MessageRouter goroutine.
MROrder == <<"ConnectClient", "GetCanonicalFacts", "Marshal", "Publish", "Subscribe">>

MRIndex(op) == CHOOSE i \in 1..Len(MROrder) : MROrder[i] = op

VARIABLES
    mainPc,      \* position of the main task
    pmPc,        \* position of the ProcessManager goroutine
    dispPc,      \* position of the Dispatcher goroutine
    mrPc,        \* position of the MessageRouter goroutine: [at, ph]
    quit,        \* the shutdown channel: sequence of at most QuitCap items
    err,         \* the variable `err` shared by main and the goroutines
    written,     \* every value assigned to err by a goroutine so far
    firstErr,    \* the first value assigned to err by a goroutine
    trigger,     \* the item main received from quit (NoItem before that)
    bus,         \* event bus: subscribers, pending deliveries, counters
    result,      \* outcome of each component call
    workers,     \* worker processes launched and still running
    launched,    \* workers launched so far by BootstrapWorkers
    outstanding, \* assignments held by the Dispatcher
    inbound,     \* broker messages received so far
    signalled,   \* an OS termination signal has been delivered
    killCount,   \* invocations of processManager.KillAllWorkers
    killResult,  \* what KillAllWorkers returned
    exitStatus,  \* process exit status (-1 while running)
    exitErr      \* the error handed to cli.NewExitError

vars == <<mainPc, pmPc, dispPc, mrPc, quit, err, written, firstErr, trigger,
          bus, result, workers, launched, outstanding, inbound, signalled,
          killCount, killResult, exitStatus, exitErr>>

NoItem == [sig |-> "none", cause |-> NoErr]

\* ------------------------------------------------------------- event bus
\* Connect(signal): registers the (single) subscriber main creates for it.
BusConnect(b, s) == [b EXCEPT !.subs = @ \cup {s}]

\* emit(signal, value): fan-out to the current subscribers; with no
\* subscriber the value is dropped, not buffered.
BusEmit(b, s) ==
    IF s \in b.subs
    THEN [b EXCEPT !.ch[s] = @ + 1, !.pubs[s] = @ + 1]
    ELSE [b EXCEPT !.drops[s] = @ + 1, !.pubs[s] = @ + 1]

\* <-c on the subscription channel of signal s.
BusCanRecv(b, s) == b.ch[s] > 0

BusRecv(b, s) == [b EXCEPT !.ch[s] = @ - 1]

\* Deliveries of signal s already taken from its subscription channel.
Delivered(b, s) == b.pubs[s] - b.drops[s] - b.ch[s]

Running == mainPc # "exited"

Init ==
    /\ mainPc = "wireProcessDie"
    /\ pmPc = "idle"
    /\ dispPc = "idle"
    /\ mrPc = [at |-> "idle", ph |-> "call"]
    /\ quit = <<>>
    /\ err = NoErr
    /\ written = {}
    /\ firstErr = NoErr
    /\ trigger = NoItem
    /\ bus = [subs |-> {}, ch |-> [s \in Signals |-> 0],
              pubs |-> [s \in Signals |-> 0], drops |-> [s \in Signals |-> 0]]
    /\ result = [op \in Ops |-> "none"]
    /\ workers = 0
    /\ launched = 0
    /\ outstanding = 0
    /\ inbound = 0
    /\ signalled = FALSE
    /\ killCount = 0
    /\ killResult = "none"
    /\ exitStatus = -1
    /\ exitErr = NoErr

\* ------------------------------------------------------- shutdown channel

\* quit <- v from a goroutine: blocks while the buffer is full.
CanSend(q) == Len(q) < QuitCap

\* Variant: the termination request is not placed on the channel.
SendQuit_Lost(q, item) == q

SendQuit(q, item) == Append(q, item)

\* err = localErr
WriteErr(e) ==
    /\ err' = e
    /\ written' = written \cup {e}
    /\ firstErr' = IF firstErr = NoErr THEN e ELSE firstErr

\* The runtime's relay for signal.Notify(quit, ...): a non-blocking send,
\* the signal is discarded when the buffer is full.
OsSignal ==
    /\ Running
    /\ signalled' = TRUE
    /\ \E sg \in {"SIGTERM", "SIGINT"} :
         quit' = IF CanSend(quit)
                 THEN Append(quit, [sig |-> sg, cause |-> NoErr])
                 ELSE quit
    /\ UNCHANGED <<mainPc, pmPc, dispPc, mrPc, err, written, firstErr, trigger,
                   bus, result, workers, launched, outstanding, inbound,
                   killCount, killResult, exitStatus, exitErr>>

\* ------------------------------------------------------------- main task
MainOrder == <<"wireProcessDie", "wireMessageRecv", "wireAssignmentCreate",
               "wireWorkComplete", "wireAssignmentReturn", "connectListen",
               "goPM", "goDisp", "connectBootstrap", "goMR", "waitQuit">>

MainAfter(pc) == MainOrder[(CHOOSE i \in 1..Len(MainOrder) : MainOrder[i] = pc) + 1]

WireSignal(pc) ==
    CASE pc = "wireProcessDie"       -> "process-die"
      [] pc = "wireMessageRecv"      -> "message-recv"
      [] pc = "wireAssignmentCreate" -> "assignment-create"
      [] pc = "wireWorkComplete"     -> "work-complete"
      [] pc = "wireAssignmentReturn" -> "assignment-return"
      [] pc = "connectListen"        -> "dispatcher-listen"
      [] pc = "connectBootstrap"     -> "process-bootstrap"

\* Lines 110-128: X.Connect(signal); go Y.Handle...Signal(channel)
\* Lines 131, 159: the Connect calls that precede the goroutine literals.
MainConnect ==
    /\ mainPc \in {"wireProcessDie", "wireMessageRecv", "wireAssignmentCreate",
                   "wireWorkComplete", "wireAssignmentReturn",
                   "connectListen", "connectBootstrap"}
    /\ bus' = BusConnect(bus, WireSignal(mainPc))
    /\ mainPc' = MainAfter(mainPc)
    /\ UNCHANGED <<pmPc, dispPc, mrPc, quit, err, written, firstErr, trigger,
                   result, workers, launched, outstanding, inbound, signalled,
                   killCount, killResult, exitStatus, exitErr>>

\* Line 132: go func(c <-chan interface{}) {...}(sigDispatcherListen)
MainGoPM ==
    /\ mainPc = "goPM"
    /\ mainPc' = MainAfter(mainPc)
    /\ pmPc' = "wait"
    /\ UNCHANGED <<dispPc, mrPc, quit, err, written, firstErr, trigger, bus,
                   result, workers, launched, outstanding, inbound, signalled,
                   killCount, killResult, exitStatus, exitErr>>

\* Line 147: go func() {...}()
MainGoDisp ==
    /\ mainPc = "goDisp"
    /\ mainPc' = MainAfter(mainPc)
    /\ dispPc' = "listen"
    /\ UNCHANGED <<pmPc, mrPc, quit, err, written, firstErr, trigger, bus,
                   result, workers, launched, outstanding, inbound, signalled,
                   killCount, killResult, exitStatus, exitErr>>

\* Line 160: go func(c <-chan interface{}) {...}(sigProcessBootstrap)
MainGoMR ==
    /\ mainPc = "goMR"
    /\ mainPc' = MainAfter(mainPc)
    /\ mrPc' = [at |-> "wait", ph |-> "call"]
    /\ UNCHANGED <<pmPc, dispPc, quit, err, written, firstErr, trigger, bus,
                   result, workers, launched, outstanding, inbound, signalled,
                   killCount, killResult, exitStatus, exitErr>>


\* Line 192: <-quit
MainRecvQuit ==
    /\ mainPc = "waitQuit"
    /\ Len(quit) > 0
    /\ trigger' = Head(quit)
    /\ quit' = Tail(quit)
    /\ mainPc' = "kill"
    /\ UNCHANGED <<pmPc, dispPc, mrPc, err, written, firstErr, bus, result,
                   workers, launched, outstanding, inbound, signalled,
                   killCount, killResult, exitStatus, exitErr>>

\* Variant: the shutdown sequence sits in a loop around <-quit.
MainKillAllWorkers_Loop ==
    /\ mainPc = "kill"
    /\ killCount' = killCount + 1
    /\ killResult' = "ok"
    /\ workers' = 0
    /\ mainPc' = "waitQuit"
    /\ UNCHANGED <<pmPc, dispPc, mrPc, quit, err, written, firstErr, trigger,
                   bus, result, launched, outstanding, inbound, signalled,
                   exitStatus, exitErr>>

\* Variant: the error returned by KillAllWorkers is not tested.
MainKillAllWorkers_IgnoreErr ==
    /\ mainPc = "kill"
    /\ killCount' = killCount + 1
    /\ \/ /\ killResult' = "ok"
          /\ workers' = 0
       \/ /\ workers > 0
          /\ killResult' = "err"
          /\ UNCHANGED workers
    /\ mainPc' = "checkErr"
    /\ UNCHANGED <<pmPc, dispPc, mrPc, quit, err, written, firstErr, trigger,
                   bus, result, launched, outstanding, inbound, signalled,
                   exitStatus, exitErr>>

\* Lines 194-196: if err := processManager.KillAllWorkers(); err != nil {
\*                    return cli.NewExitError(err, 1) }
\* KillAllWorkers terminates every supervised worker or reports that some
\* could not be terminated.
MainKillAllWorkers ==
    /\ mainPc = "kill"
    /\ killCount' = killCount + 1
    /\ \/ /\ killResult' = "ok"
          /\ workers' = 0
          /\ mainPc' = "checkErr"
          /\ UNCHANGED <<exitStatus, exitErr>>
       \/ /\ workers > 0
          /\ killResult' = "err"
          /\ UNCHANGED workers
          /\ mainPc' = "exited"
          /\ exitStatus' = 1
          /\ exitErr' = "ShutdownError"
    /\ UNCHANGED <<pmPc, dispPc, mrPc, quit, err, written, firstErr, trigger,
                   bus, result, launched, outstanding, inbound, signalled>>

\* Writes to err made by the MessageRouter goroutine before the write of e
\* in its program order: overwritten before e was sent on quit.
Superseded(e) ==
    IF \E i \in 1..Len(MROrder) : ErrOf(MROrder[i]) = e
    THEN {ErrOf(MROrder[j]) :
            j \in {k \in 1..Len(MROrder) :
                     k < (CHOOSE i \in 1..Len(MROrder) : ErrOf(MROrder[i]) = e)}}
    ELSE {}

\* What the read of err on line 198 can return.  The goroutines write err
\* without synchronisation; only the write that precedes the send of the
\* item main received is ordered before the read.  Every other write races
\* with it, so the read returns the ordered value or any racing one.
Observable(item) ==
    IF item.cause = NoErr
    THEN {NoErr} \cup written
    ELSE written \ Superseded(item.cause)

\* Variant: line 198 tests an err that shadows the shared one (always nil).
MainCheckErr_Shadowed ==
    /\ mainPc = "checkErr"
    /\ exitErr' = NoErr
    /\ exitStatus' = 0
    /\ mainPc' = "exited"
    /\ UNCHANGED <<pmPc, dispPc, mrPc, quit, err, written, firstErr, trigger,
                   bus, result, workers, launched, outstanding, inbound,
                   signalled, killCount, killResult>>

\* Variant: the error exit of line 199 is taken unconditionally.
MainCheckErr_Unconditional ==
    /\ mainPc = "checkErr"
    /\ exitErr' = err
    /\ exitStatus' = 1
    /\ mainPc' = "exited"
    /\ UNCHANGED <<pmPc, dispPc, mrPc, quit, err, written, firstErr, trigger,
                   bus, result, workers, launched, outstanding, inbound,
                   signalled, killCount, killResult>>

\* Lines 198-202: if err != nil { return cli.NewExitError(err, 1) }; return nil
MainCheckErr ==
    /\ mainPc = "checkErr"
    /\ \E seen \in Observable(trigger) :
         /\ exitErr' = seen
         /\ exitStatus' = IF seen # NoErr THEN 1 ELSE 0
    /\ mainPc' = "exited"
    /\ UNCHANGED <<pmPc, dispPc, mrPc, quit, err, written, firstErr, trigger,
                   bus, result, workers, launched, outstanding, inbound,
                   signalled, killCount, killResult>>

Main ==
    \/ MainConnect
    \/ MainGoPM
    \/ MainGoDisp
    \/ MainGoMR
    \/ MainRecvQuit
    \/ MainKillAllWorkers
    \/ MainCheckErr

\* ---------------------------------------------- ProcessManager goroutine
\* Variant: the goroutine does not receive from c before bootstrapping.
PMWait_NoWait ==
    /\ Running
    /\ pmPc = "wait"
    /\ pmPc' = "mkdir"
    /\ UNCHANGED <<mainPc, dispPc, mrPc, quit, err, written, firstErr,
                   trigger, bus, result, workers, launched, outstanding,
                   inbound, signalled, killCount, killResult, exitStatus,
                   exitErr>>

\* Line 136: <-c   (c is the dispatcher-listen subscription)
PMWait ==
    /\ Running
    /\ pmPc = "wait"
    /\ BusCanRecv(bus, "dispatcher-listen")
    /\ bus' = BusRecv(bus, "dispatcher-listen")
    /\ pmPc' = "mkdir"
    /\ UNCHANGED <<mainPc, dispPc, mrPc, quit, err, written, firstErr,
                   trigger, result, workers, launched, outstanding, inbound,
                   signalled, killCount, killResult, exitStatus, exitErr>>

\* Lines 138-139: p := filepath.Join(...); os.MkdirAll(p, 0755)
PMMkdirAll ==
    /\ Running
    /\ pmPc = "mkdir"
    /\ pmPc' = "bootstrap"
    /\ UNCHANGED <<mainPc, dispPc, mrPc, quit, err, written, firstErr,
                   trigger, bus, result, workers, launched, outstanding,
                   inbound, signalled, killCount, killResult, exitStatus,
                   exitErr>>

\* Line 140: processManager.BootstrapWorkers(p) is invoked.
PMBootstrapStart ==
    /\ Running
    /\ pmPc = "bootstrap"
    /\ result' = [result EXCEPT !["BootstrapWorkers"] = "running"]
    /\ pmPc' = "launching"
    /\ UNCHANGED <<mainPc, dispPc, mrPc, quit, err, written, firstErr,
                   trigger, bus, workers, launched, outstanding, inbound,
                   signalled, killCount, killResult, exitStatus, exitErr>>

\* BootstrapWorkers launches one executable of the worker directory.
PMLaunchWorker ==
    /\ Running
    /\ pmPc = "launching"
    /\ launched < MaxWorkers
    /\ launched' = launched + 1
    /\ workers' = workers + 1
    /\ UNCHANGED <<mainPc, pmPc, dispPc, mrPc, quit, err, written, firstErr,
                   trigger, bus, result, outstanding, inbound, signalled,
                   killCount, killResult, exitStatus, exitErr>>

\* BootstrapWorkers completes: publishes process-bootstrap and returns nil,
\* so the goroutine ends (line 140, localErr == nil).
PMBootstrapOk ==
    /\ Running
    /\ pmPc = "launching"
    /\ bus' = BusEmit(bus, "process-bootstrap")
    /\ result' = [result EXCEPT !["BootstrapWorkers"] = "ok"]
    /\ pmPc' = "done"
    /\ UNCHANGED <<mainPc, dispPc, mrPc, quit, err, written, firstErr,
                   trigger, workers, launched, outstanding, inbound, signalled,
                   killCount, killResult, exitStatus, exitErr>>

\* BootstrapWorkers returns an error (line 140, localErr != nil); workers
\* already launched are not rolled back.
PMBootstrapErr ==
    /\ Running
    /\ pmPc = "launching"
    /\ result' = [result EXCEPT !["BootstrapWorkers"] = "err"]
    /\ pmPc' = "setErr"
    /\ UNCHANGED <<mainPc, dispPc, mrPc, quit, err, written, firstErr,
                   trigger, bus, workers, launched, outstanding, inbound,
                   signalled, killCount, killResult, exitStatus, exitErr>>

\* Line 141: err = localErr
PMSetErr ==
    /\ Running
    /\ pmPc = "setErr"
    /\ WriteErr(ErrOf("BootstrapWorkers"))
    /\ pmPc' = "send"
    /\ UNCHANGED <<mainPc, dispPc, mrPc, quit, trigger, bus, result, workers,
                   launched, outstanding, inbound, signalled, killCount,
                   killResult, exitStatus, exitErr>>

\* Line 142: quit <- syscall.SIGTERM
PMSendQuit ==
    /\ Running
    /\ pmPc = "send"
    /\ CanSend(quit)
    /\ quit' = SendQuit(quit, [sig |-> "SIGTERM", cause |-> ErrOf("BootstrapWorkers")])
    /\ pmPc' = "done"
    /\ UNCHANGED <<mainPc, dispPc, mrPc, err, written, firstErr, trigger,
                   bus, result, workers, launched, outstanding, inbound,
                   signalled, killCount, killResult, exitStatus, exitErr>>

PMTask ==
    \/ PMWait
    \/ PMMkdirAll
    \/ PMBootstrapStart
    \/ PMLaunchWorker
    \/ PMBootstrapOk
    \/ PMBootstrapErr
    \/ PMSetErr
    \/ PMSendQuit

\* -------------------------------------------------- Dispatcher goroutine
\* Line 151: dispatcher.ListenAndServe() is invoked.
DispListenStart ==
    /\ Running
    /\ dispPc = "listen"
    /\ result' = [result EXCEPT !["ListenAndServe"] = "running"]
    /\ dispPc' = "starting"
    /\ UNCHANGED <<mainPc, pmPc, mrPc, quit, err, written, firstErr, trigger,
                   bus, workers, launched, outstanding, inbound, signalled,
                   killCount, killResult, exitStatus, exitErr>>

\* ListenAndServe: the accept surface is live, listen-ready is published.
DispListenReady ==
    /\ Running
    /\ dispPc = "starting"
    /\ bus' = BusEmit(bus, "dispatcher-listen")
    /\ dispPc' = "serving"
    /\ UNCHANGED <<mainPc, pmPc, mrPc, quit, err, written, firstErr, trigger,
                   result, workers, launched, outstanding, inbound, signalled,
                   killCount, killResult, exitStatus, exitErr>>

\* ListenAndServe returns an error, before or after it became ready
\* (line 151, localErr != nil).
DispListenErr ==
    /\ Running
    /\ dispPc \in {"starting", "serving"}
    /\ result' = [result EXCEPT !["ListenAndServe"] = "err"]
    /\ dispPc' = "setErr"
    /\ UNCHANGED <<mainPc, pmPc, mrPc, quit, err, written, firstErr, trigger,
                   bus, workers, launched, outstanding, inbound, signalled,
                   killCount, killResult, exitStatus, exitErr>>

\* ListenAndServe returns nil: the goroutine ends (line 151, localErr == nil).
DispListenNil ==
    /\ Running
    /\ dispPc = "serving"
    /\ result' = [result EXCEPT !["ListenAndServe"] = "ok"]
    /\ dispPc' = "done"
    /\ UNCHANGED <<mainPc, pmPc, mrPc, quit, err, written, firstErr, trigger,
                   bus, workers, launched, outstanding, inbound, signalled,
                   killCount, killResult, exitStatus, exitErr>>

\* Lines 152-153: logger.Trace(localErr); err = localErr
DispSetErr ==
    /\ Running
    /\ dispPc = "setErr"
    /\ WriteErr(ErrOf("ListenAndServe"))
    /\ dispPc' = "send"
    /\ UNCHANGED <<mainPc, pmPc, mrPc, quit, trigger, bus, result, workers,
                   launched, outstanding, inbound, signalled, killCount,
                   killResult, exitStatus, exitErr>>

\* Line 154: quit <- syscall.SIGTERM
DispSendQuit ==
    /\ Running
    /\ dispPc = "send"
    /\ CanSend(quit)
    /\ quit' = SendQuit(quit, [sig |-> "SIGTERM", cause |-> ErrOf("ListenAndServe")])
    /\ dispPc' = "done"
    /\ UNCHANGED <<mainPc, pmPc, mrPc, err, written, firstErr, trigger, bus,
                   result, workers, launched, outstanding, inbound, signalled,
                   killCount, killResult, exitStatus, exitErr>>

DispTask ==
    \/ DispListenStart
    \/ DispListenReady
    \/ DispListenErr
    \/ DispListenNil
    \/ DispSetErr
    \/ DispSendQuit

\* The steps of the Dispatcher goroutine that scheduling alone brings about.
\* ListenAndServe, once serving, may run for the life of the daemon: its
\* return (lines 151-155) is not something the scheduler forces.
DispProgress ==
    \/ DispListenStart
    \/ DispListenReady
    \/ DispSetErr
    \/ DispSendQuit

\* ----------------------------------------------- MessageRouter goroutine
\* Where the goroutine continues after the statement for op: there is no
\* return after a failed call, the next statement follows in either case.
MRAfter(op) ==
    IF MRIndex(op) < Len(MROrder)
    THEN [at |-> MROrder[MRIndex(op) + 1], ph |-> "call"]
    ELSE [at |-> "done", ph |-> "call"]

\* Variant: the goroutine does not receive from c before connecting.
MRWait_NoWait ==
    /\ Running
    /\ mrPc.at = "wait"
    /\ mrPc' = [at |-> MROrder[1], ph |-> "call"]
    /\ UNCHANGED <<mainPc, pmPc, dispPc, quit, err, written, firstErr,
                   trigger, bus, result, workers, launched, outstanding,
                   inbound, signalled, killCount, killResult, exitStatus,
                   exitErr>>

\* Variant: the goroutine is handed the dispatcher-listen subscription.
MRWait_WrongSignal ==
    /\ Running
    /\ mrPc.at = "wait"
    /\ BusCanRecv(bus, "dispatcher-listen")
    /\ bus' = BusRecv(bus, "dispatcher-listen")
    /\ mrPc' = [at |-> MROrder[1], ph |-> "call"]
    /\ UNCHANGED <<mainPc, pmPc, dispPc, quit, err, written, firstErr,
                   trigger, result, workers, launched, outstanding, inbound,
                   signalled, killCount, killResult, exitStatus, exitErr>>

\* Line 164: <-c   (c is the process-bootstrap subscription)
MRWait ==
    /\ Running
    /\ mrPc.at = "wait"
    /\ BusCanRecv(bus, "process-bootstrap")
    /\ bus' = BusRecv(bus, "process-bootstrap")
    /\ mrPc' = [at |-> MROrder[1], ph |-> "call"]
    /\ UNCHANGED <<mainPc, pmPc, dispPc, quit, err, written, firstErr,
                   trigger, result, workers, launched, outstanding, inbound,
                   signalled, killCount, killResult, exitStatus, exitErr>>

\* A call of the goroutine returns nil or an error.
MRCall(op) ==
    /\ Running
    /\ mrPc = [at |-> op, ph |-> "call"]
    /\ \/ /\ result' = [result EXCEPT ![op] = "ok"]
          /\ mrPc' = MRAfter(op)
       \/ /\ result' = [result EXCEPT ![op] = "err"]
          /\ mrPc' = [at |-> op, ph |-> "setErr"]
    /\ UNCHANGED <<mainPc, pmPc, dispPc, quit, err, written, firstErr,
                   trigger, bus, workers, launched, outstanding, inbound,
                   signalled, killCount, killResult, exitStatus, exitErr>>

\* Line 166: messageRouter.ConnectClient()
MRConnectClient == MRCall("ConnectClient")

\* Line 171: yggdrasil.GetCanonicalFacts()
MRGetCanonicalFacts == MRCall("GetCanonicalFacts")

\* Line 176: json.Marshal(facts)
MRMarshal == MRCall("Marshal")

\* Line 181: messageRouter.Publish("handshake", data)
MRPublish == MRCall("Publish")

\* Line 186: messageRouter.Subscribe()
MRSubscribe == MRCall("Subscribe")

\* Lines 167, 173, 178, 182, 187: err = localErr
MRSetErr ==
    /\ Running
    /\ mrPc.ph = "setErr"
    /\ WriteErr(ErrOf(mrPc.at))
    /\ mrPc' = [mrPc EXCEPT !.ph = "send"]
    /\ UNCHANGED <<mainPc, pmPc, dispPc, quit, trigger, bus, result, workers,
                   launched, outstanding, inbound, signalled, killCount,
                   killResult, exitStatus, exitErr>>

\* Lines 168, 174, 179, 183, 188: quit <- syscall.SIGTERM, then the
\* statement that follows.
MRSendQuit ==
    /\ Running
    /\ mrPc.ph = "send"
    /\ CanSend(quit)
    /\ quit' = SendQuit(quit, [sig |-> "SIGTERM", cause |-> ErrOf(mrPc.at)])
    /\ mrPc' = MRAfter(mrPc.at)
    /\ UNCHANGED <<mainPc, pmPc, dispPc, err, written, firstErr, trigger,
                   bus, result, workers, launched, outstanding, inbound,
                   signalled, killCount, killResult, exitStatus, exitErr>>

MRTask ==
    \/ MRWait
    \/ MRConnectClient
    \/ MRGetCanonicalFacts
    \/ MRMarshal
    \/ MRPublish
    \/ MRSubscribe
    \/ MRSetErr
    \/ MRSendQuit

\* ------------------------------------ components behind the other signals
\* ProcessManager monitor: a worker exits unexpectedly, process-die is
\* published.
WorkerDies ==
    /\ Running
    /\ workers > 0
    /\ workers' = workers - 1
    /\ bus' = BusEmit(bus, "process-die")
    /\ UNCHANGED <<mainPc, pmPc, dispPc, mrPc, quit, err, written, firstErr,
                   trigger, result, launched, outstanding, inbound, signalled,
                   killCount, killResult, exitStatus, exitErr>>

\* MessageRouter receive loop: an inbound broker message arrives on a
\* subscribed topic, message-recv is published.
BrokerMessage ==
    /\ Running
    /\ result["Subscribe"] = "ok"
    /\ inbound < MaxMessages
    /\ inbound' = inbound + 1
    /\ bus' = BusEmit(bus, "message-recv")
    /\ UNCHANGED <<mainPc, pmPc, dispPc, mrPc, quit, err, written, firstErr,
                   trigger, result, workers, launched, outstanding, signalled,
                   killCount, killResult, exitStatus, exitErr>>

\* Line 116: payloadProcessor.HandleMessageRecvSignal: new work becomes an
\* assignment-create event, a malformed payload is dropped.
HandleMessageRecv ==
    /\ Running
    /\ BusCanRecv(bus, "message-recv")
    /\ \/ bus' = BusEmit(BusRecv(bus, "message-recv"), "assignment-create")
       \/ bus' = BusRecv(bus, "message-recv")
    /\ UNCHANGED <<mainPc, pmPc, dispPc, mrPc, quit, err, written, firstErr,
                   trigger, result, workers, launched, outstanding, inbound,
                   signalled, killCount, killResult, exitStatus, exitErr>>

\* Line 120: dispatcher.HandleAssignmentCreateSignal: the assignment is held
\* for its worker.
HandleAssignmentCreate ==
    /\ Running
    /\ BusCanRecv(bus, "assignment-create")
    /\ bus' = BusRecv(bus, "assignment-create")
    /\ outstanding' = outstanding + 1
    /\ UNCHANGED <<mainPc, pmPc, dispPc, mrPc, quit, err, written, firstErr,
                   trigger, result, workers, launched, inbound, signalled,
                   killCount, killResult, exitStatus, exitErr>>

\* Dispatcher: a worker reports completion, one work-complete is published.
WorkerCompletes ==
    /\ Running
    /\ dispPc = "serving"
    /\ workers > 0
    /\ outstanding > 0
    /\ outstanding' = outstanding - 1
    /\ bus' = BusEmit(bus, "work-complete")
    /\ UNCHANGED <<mainPc, pmPc, dispPc, mrPc, quit, err, written, firstErr,
                   trigger, result, workers, launched, inbound, signalled,
                   killCount, killResult, exitStatus, exitErr>>

\* Line 112: dispatcher.HandleProcessDieSignal: an assignment outstanding
\* for the dead worker is failed with a work-complete event.
HandleProcessDie ==
    /\ Running
    /\ BusCanRecv(bus, "process-die")
    /\ \/ /\ outstanding > 0
          /\ outstanding' = outstanding - 1
          /\ bus' = BusEmit(BusRecv(bus, "process-die"), "work-complete")
       \/ /\ bus' = BusRecv(bus, "process-die")
          /\ UNCHANGED outstanding
    /\ UNCHANGED <<mainPc, pmPc, dispPc, mrPc, quit, err, written, firstErr,
                   trigger, result, workers, launched, inbound, signalled,
                   killCount, killResult, exitStatus, exitErr>>

\* Line 124: payloadProcessor.HandleWorkCompleteSignal: the result is
\* translated and published as assignment-return.
HandleWorkComplete ==
    /\ Running
    /\ BusCanRecv(bus, "work-complete")
    /\ bus' = BusEmit(BusRecv(bus, "work-complete"), "assignment-return")
    /\ UNCHANGED <<mainPc, pmPc, dispPc, mrPc, quit, err, written, firstErr,
                   trigger, result, workers, launched, outstanding, inbound,
                   signalled, killCount, killResult, exitStatus, exitErr>>

\* Line 128: dispatcher.HandleAssignmentReturnSignal
HandleAssignmentReturn ==
    /\ Running
    /\ BusCanRecv(bus, "assignment-return")
    /\ bus' = BusRecv(bus, "assignment-return")
    /\ UNCHANGED <<mainPc, pmPc, dispPc, mrPc, quit, err, written, firstErr,
                   trigger, result, workers, launched, outstanding, inbound,
                   signalled, killCount, killResult, exitStatus, exitErr>>

Handlers ==
    \/ WorkerDies
    \/ BrokerMessage
    \/ HandleMessageRecv
    \/ HandleAssignmentCreate
    \/ WorkerCompletes
    \/ HandleProcessDie
    \/ HandleWorkComplete
    \/ HandleAssignmentReturn

Next == Main \/ PMTask \/ DispTask \/ MRTask \/ Handlers \/ OsSignal


Spec == Init /\ [][Next]_vars

\* Scheduling: the Go runtime runs every runnable goroutine eventually.  No
\* fairness is assumed of the environment (OS signals, workers, broker).
FairSpec ==
    /\ Spec
    /\ WF_vars(Main)
    /\ WF_vars(PMTask)
    /\ WF_vars(DispProgress)
    /\ WF_vars(MRTask)

\* ================================================================ claims
Exited == mainPc = "exited"

\* The ProcessManager goroutine has created the worker directory.
PMDirCreated == pmPc \in {"bootstrap", "launching", "setErr", "send", "done"}

\* A component call has been invoked.
Invoked(op) == result[op] # "none"

\* A component-level fatal error occurred or the host sent a signal.
ShutdownTrigger ==
    \/ signalled
    \/ \E op \in {"BootstrapWorkers", "ListenAndServe", "ConnectClient",
                  "Publish", "Subscribe"} : result[op] = "err"

\* C1: KillAllWorkers is invoked at most once per daemon run, also when an
\* OS termination signal and internal fatal errors are raised together.
C1_KillAllWorkersAtMostOnce == killCount <= 1

C1_Witness ==
    /\ killCount = 1
    /\ signalled
    /\ Cardinality(written) >= 2

\* C2: the ProcessManager goroutine has neither created the worker
\* directory nor invoked BootstrapWorkers unless listen-ready was published
\* and a delivery of it was taken from the goroutine's channel.
C2_BootstrapAfterListenReady ==
    (PMDirCreated \/ Invoked("BootstrapWorkers") \/ launched > 0)
        => /\ bus.pubs["dispatcher-listen"] >= 1
           /\ Delivered(bus, "dispatcher-listen") >= 1

C2_Witness ==
    /\ result["BootstrapWorkers"] = "running"
    /\ launched > 0
    /\ Delivered(bus, "dispatcher-listen") = 1

\* C3: none of ConnectClient, the handshake Publish and Subscribe has been
\* started unless process-bootstrap was published and a delivery of it was
\* taken from the MessageRouter goroutine's channel.
C3_BrokerAfterProcessBootstrap ==
    (Invoked("ConnectClient") \/ Invoked("Publish") \/ Invoked("Subscribe"))
        => /\ bus.pubs["process-bootstrap"] >= 1
           /\ Delivered(bus, "process-bootstrap") >= 1

C3_Witness ==
    /\ Invoked("ConnectClient")
    /\ Invoked("Publish")
    /\ Invoked("Subscribe")
    /\ Delivered(bus, "process-bootstrap") = 1

\* C4: the first fatal error wins: a recorded fatal error is never
\* overwritten by a later one, and the error main reports at exit is the
\* first fatal error that was recorded.
C4_FirstErrorWins ==
    /\ err # NoErr => err = firstErr
    /\ (Exited /\ killResult = "ok" /\ exitErr # NoErr) => exitErr = firstErr

C6_ErrorTriggeredExitsNonZero ==
    (Exited /\ trigger.cause # NoErr) => exitStatus > 0

C6_Witness ==
    /\ Exited
    /\ trigger.cause # NoErr
    /\ killResult = "ok"
    /\ exitStatus = 1

\* C7: when main woke on an OS signal, no goroutine has recorded a fatal
\* error and KillAllWorkers succeeded, the daemon exits with status zero.
C7_CleanExternalExitsZero ==
    (Exited /\ trigger.sig # "none" /\ trigger.cause = NoErr
            /\ written = {} /\ killResult = "ok") => exitStatus = 0

C7_Witness ==
    /\ Exited
    /\ trigger.sig = "SIGINT"
    /\ written = {}
    /\ killResult = "ok"
    /\ launched > 0
    /\ exitStatus = 0

\* C8: Subscribe is invoked only after the handshake Publish has returned
\* successfully.
C8_SubscribeAfterHandshake ==
    Invoked("Subscribe") => result["Publish"] = "ok"

C10_NoSignalDropped == \A s \in Signals : bus.drops[s] = 0

\* The Dispatcher's accept surface is live.
DispatcherAccepting == Running /\ dispPc = "serving"

\* The MessageRouter goroutine is running and its next statement starts a
\* broker connect or subscribe.
BrokerStartPending ==
    /\ Running
    /\ mrPc.ph = "call"
    /\ mrPc.at \in {"ConnectClient", "Subscribe"}

\* C11: once main has woken from the shutdown channel and KillAllWorkers is
\* invoked, the Dispatcher no longer accepts requests and no broker
\* connect/subscribe is still to be started.
C11_StopAcceptingBeforeKill ==
    killCount >= 1 => (~DispatcherAccepting /\ ~BrokerStartPending)

\* C12: when KillAllWorkers returns an error the daemon exits non-zero
\* carrying that error, whatever triggered the shutdown.
C12_ShutdownErrorIsExitStatus ==
    killResult = "err"
        => (Exited /\ exitStatus = 1 /\ exitErr = "ShutdownError")

C12_Witness ==
    /\ killResult = "err"
    /\ Exited
    /\ trigger.cause # NoErr
    /\ exitErr = "ShutdownError"

\* Something that starts a shutdown has happened: an OS signal, a failed
\* component call, or main has left the shutdown channel.
AnyShutdownTrigger ==
    \/ signalled
    \/ \E op \in Ops : result[op] = "err"
    \/ trigger.sig # "none"

\* C13: when listen-ready was published and BootstrapWorkers succeeded and
\* published process-bootstrap, then, unless a shutdown trigger occurs, the
\* MessageRouter goroutine eventually invokes ConnectClient, the handshake
\* Publish and Subscribe.
C13_StartupProgress ==
    (result["BootstrapWorkers"] = "ok" /\ bus.pubs["dispatcher-listen"] >= 1
                                       /\ bus.pubs["process-bootstrap"] >= 1)
        ~> \/ Invoked("ConnectClient") /\ Invoked("Publish") /\ Invoked("Subscribe")
           \/ AnyShutdownTrigger

\* C14: once KillAllWorkers has been invoked BootstrapWorkers is not about
\* to start or still launching, and no worker is left running when the
\* daemon exits after a successful KillAllWorkers.
C14_NoWorkerLeftAfterShutdown ==
    /\ (killCount >= 1 /\ Running)
           => pmPc \notin {"mkdir", "bootstrap", "launching"}
    /\ (Exited /\ killResult = "ok") => workers = 0

\* C15: Publish and Subscribe are never invoked after ConnectClient returned
\* an error, and after a broker operation failed and was reported no later
\* broker operation is performed.
C15_NoBrokerOpAfterError ==
    /\ result["ConnectClient"] = "err"
           => (~Invoked("Publish") /\ ~Invoked("Subscribe"))
    /\ result["Publish"] = "err" => ~Invoked("Subscribe")

\* A goroutine is blocked on quit <- syscall.SIGTERM.
SendBlocked ==
    /\ ~CanSend(quit)
    /\ \/ pmPc = "send"
       \/ dispPc = "send"
       \/ mrPc.ph = "send"

\* C16: no goroutine is stuck on its send of a termination request while
\* main, having received once, no longer reads the shutdown channel.
C16_ReporterNeverStuck ==
    ~(SendBlocked /\ mainPc \in {"kill", "checkErr"})

====
